---- MODULE Spec2Model ----
(***************************************************************************)
(* nats-pocketbase-sync: the reconciliation pipeline.                      *)
(*   cmd/sync/main.go         main loop and runSync (one cycle)            *)
(*   internal/generator       GenerateConfig                               *)
(*   internal/filemanager     HasConfigChanged, WriteConfigFile,           *)
(*                            backupCurrentConfig, CleanupOldBackups       *)
(*   internal/nats/reloader   ReloadConfig                                 *)
(*   internal/models          NormalizeRoleName, Format*Permissions        *)
(* Strings are sequences of one-character strings, compared bytewise.      *)
(***************************************************************************)
EXTENDS Integers, Sequences, FiniteSets, TLC

(***************************************************************************)
(* Bounds of the model.                                                    *)
(***************************************************************************)
\* the clock may run this many seconds past each of its reference points
MaxAdvance == 0
\* number of distinct contents of the identity store
MaxStore == 2
\* length of the role and user lists handed to GenerateConfig on its own
MaxRecords == 2
\* extra concurrent callers of ReloadConfig besides the orchestrator
MaxCallers == 2
\* files the backup directory has room for
MaxBackups == 1

(***************************************************************************)
(* Program constants.                                                      *)
(***************************************************************************)
\* reloader.go:27  minInterval: 5 * time.Second
MinInterval == 5
\* main.go:117  CleanupOldBackups(30 * 24 * time.Hour), in seconds
BackupMaxAge == 2592000

(***************************************************************************)
(* Strings.                                                                *)
(***************************************************************************)
\* the byte value of a character (ASCII)
Ord(c) ==
  CASE c = " " -> 32
    [] c = "!" -> 33
    [] c = "\"" -> 34
    [] c = "1" -> 49
    [] c = "A" -> 65
    [] c = "B" -> 66
    [] c = "_" -> 95
    [] c = "a" -> 97
    [] c = "b" -> 98

\* Go's string < : lexicographic on bytes, a proper prefix is smaller
RECURSIVE StrLess(_, _)
StrLess(s, t) ==
  IF t = <<>> THEN FALSE
  ELSE IF s = <<>> THEN TRUE
  ELSE IF Ord(Head(s)) < Ord(Head(t)) THEN TRUE
  ELSE IF Ord(Head(s)) > Ord(Head(t)) THEN FALSE
  ELSE StrLess(Tail(s), Tail(t))

UpperChar(c) == CASE c = "a" -> "A" [] c = "b" -> "B" [] OTHER -> c
LowerChar(c) == CASE c = "A" -> "a" [] c = "B" -> "b" [] OTHER -> c

\* strings.ToUpper / strings.ToLower
ToUpper(s) == [i \in 1..Len(s) |-> UpperChar(s[i])]
ToLower(s) == [i \in 1..Len(s) |-> LowerChar(s[i])]

\* strings.ReplaceAll(name, " ", "_")
ReplaceSpaces(s) == [i \in 1..Len(s) |-> IF s[i] = " " THEN "_" ELSE s[i]]

IsNameChar(c) == c \in {"A", "B", "1", "_"}

RECURSIVE KeepNameChars(_)
KeepNameChars(s) ==
  IF s = <<>> THEN <<>>
  ELSE IF IsNameChar(Head(s)) THEN <<Head(s)>> \o KeepNameChars(Tail(s))
  ELSE KeepNameChars(Tail(s))

\* MqttRole.NormalizeRoleName: upper-case, spaces to underscores, then drop
\* every character that is not A-Z, 0-9 or underscore
NormalizeRoleName(r) == KeepNameChars(ReplaceSpaces(ToUpper(r.Name)))

Quote(s) == <<"\"">> \o s \o <<"\"">>

(***************************************************************************)
(* Permissions.  A raw JSON field is one of                                *)
(*   [kind |-> "empty"]      no bytes (len == 0)                           *)
(*   [kind |-> "null"]       the JSON null                                 *)
(*   [kind |-> "invalid"]    anything json.Unmarshal into []string rejects *)
(*   [kind |-> "list", items |-> <<strings>>]                              *)
(***************************************************************************)
\* MqttRole.GetPublishPermissions / GetSubscribePermissions
GetPermissions(raw) ==
  CASE raw.kind = "empty"   -> [err |-> FALSE, list |-> <<>>]
    [] raw.kind = "null"    -> [err |-> FALSE, list |-> <<>>]
    [] raw.kind = "invalid" -> [err |-> TRUE,  list |-> <<>>]
    [] raw.kind = "list"    -> [err |-> FALSE, list |-> raw.items]

RECURSIVE JoinQuoted(_)
JoinQuoted(list) ==
  IF Len(list) = 1 THEN Quote(list[1])
  ELSE Quote(Head(list)) \o <<",", " ">> \o JoinQuoted(Tail(list))

\* a formatter that renders nothing for a field it cannot decode
FormatPermissionsBlank(raw) ==
  LET p == GetPermissions(raw) IN
  IF p.err THEN <<>>
  ELSE IF Len(p.list) = 0 THEN <<"\"", "\"">>
  ELSE IF Len(p.list) = 1 THEN Quote(p.list[1])
  ELSE <<"[">> \o JoinQuoted(p.list) \o <<"]">>

\* the body shared by FormatPublishPermissions and FormatSubscribePermissions
FormatPermissions(raw) ==
  LET p == GetPermissions(raw) IN
  IF p.err THEN <<"\"", "\"">>
  ELSE IF Len(p.list) = 0 THEN <<"\"", "\"">>
  ELSE IF Len(p.list) = 1 THEN Quote(p.list[1])
  ELSE <<"[">> \o JoinQuoted(p.list) \o <<"]">>

FormatPublishPermissions(r) == FormatPermissions(r.PublishPermissions)
FormatSubscribePermissions(r) == FormatPermissions(r.SubscribePermissions)

(***************************************************************************)
(* GenerateConfig.                                                         *)
(***************************************************************************)
\* roleMap[id] after "for _, role := range roles { roleMap[role.ID] = role }":
\* the last role of the list with that ID
HasRole(roles, id) == \E i \in 1..Len(roles) : roles[i].ID = id
RoleMap(roles, id) ==
  LET last == CHOOSE i \in 1..Len(roles) :
                /\ roles[i].ID = id
                /\ \A j \in (i+1)..Len(roles) : roles[j].ID # id
  IN roles[last]

\* configData.Roles before sorting
NatsRoles(roles) ==
  [i \in 1..Len(roles) |->
     [Name |-> NormalizeRoleName(roles[i]),
      PublishPermissions |-> FormatPublishPermissions(roles[i]),
      SubscribePermissions |-> FormatSubscribePermissions(roles[i])]]

\* configData.Users before sorting: users with an unknown RoleID are skipped
RECURSIVE NatsUsersFrom(_, _, _)
NatsUsersFrom(roles, users, i) ==
  IF i > Len(users) THEN <<>>
  ELSE IF ~HasRole(roles, users[i].RoleID)
       THEN NatsUsersFrom(roles, users, i + 1)
       ELSE <<[Username |-> Quote(users[i].Username),
               Password |-> users[i].Password,
               RoleName |-> NormalizeRoleName(RoleMap(roles, users[i].RoleID)),
               IsLast   |-> (i = Len(users))]>>
            \o NatsUsersFrom(roles, users, i + 1)

\* a generator that leaves out the users whose active flag is false
NatsUsersOfActive(roles, users) ==
  NatsUsersFrom(roles, SelectSeq(users, LAMBDA u : u.Active), 1)

NatsUsers(roles, users) == NatsUsersFrom(roles, users, 1)

\* sort.Slice on a slice of at most 12 elements is an insertion sort: element
\* i moves left while less(it, its left neighbour).  Sorted here are pairs
\* <<key, value>> by key.
RECURSIVE SortInsert(_, _)
SortInsert(s, x) ==
  IF s = <<>> THEN <<x>>
  ELSE IF StrLess(x[1], s[Len(s)][1])
       THEN Append(SortInsert(SubSeq(s, 1, Len(s) - 1), x), s[Len(s)])
       ELSE Append(s, x)

RECURSIVE SortSlice(_)
SortSlice(s) ==
  IF s = <<>> THEN <<>>
  ELSE CHOOSE out \in {SortInsert(front, s[Len(s)]) :
                         front \in {SortSlice(SubSeq(s, 1, Len(s) - 1))}} : TRUE

Values(pairs) ==
  CHOOSE out \in {[i \in 1..Len(p) |-> p[i][2]] : p \in {pairs}} : TRUE

\* sort.Slice(configData.Roles, ... Roles[i].Name < Roles[j].Name)
SortRoles(rs) ==
  CHOOSE out \in
    {Values(SortSlice(pairs)) :
       pairs \in {[i \in 1..Len(rs) |-> <<rs[i].Name, rs[i]>>]}} : TRUE

\* sort.Slice(configData.Users, ... ToLower(Users[i].Username) < ToLower(Users[j].Username))
SortUsers(us) ==
  CHOOSE out \in
    {Values(SortSlice(pairs)) :
       pairs \in {[i \in 1..Len(us) |-> <<ToLower(us[i].Username), us[i]>>]}} : TRUE

\* a generator that keeps the IsLast flags of the input order
FixIsLastKeep(us) == us

\* "Update IsLast flag based on new order"
FixIsLast(us) == [i \in 1..Len(us) |-> [us[i] EXCEPT !.IsLast = (i = Len(us))]]

\* models.FormatConfigFile: the text is a header line carrying the default
\* permissions, then one line per role, then one line per user
FormatConfigFile(data) ==
  <<[line |-> "defaults"]>>
  \o [i \in 1..Len(data.Roles) |-> [line |-> "role", entry |-> data.Roles[i]]]
  \o [i \in 1..Len(data.Users) |-> [line |-> "user", entry |-> data.Users[i]]]

\* configData as handed to the template; each stage works on the value the
\* stage before it produced
ConfigData(roles, users) ==
  CHOOSE data \in
    {[Roles |-> sortedRoles, Users |-> FixIsLast(sortedUsers)] :
       sortedRoles \in {SortRoles(natsRoles) : natsRoles \in {NatsRoles(roles)}},
       sortedUsers \in {SortUsers(natsUsers) :
                          natsUsers \in {NatsUsers(roles, users)}}} : TRUE

GenerateConfig(roles, users) ==
  CHOOSE text \in
    {FormatConfigFile(data) : data \in {ConfigData(roles, users)}} : TRUE


(***************************************************************************)
(* State.                                                                  *)
(***************************************************************************)
VARIABLES
  \* main / runSync
  pc,              \* where the main goroutine is
  initial,         \* TRUE while the cycle is the initial sync (main.go:102)
  authToken,       \* pbClient.authToken
  roles, users,    \* runSync's locals: the fetched records
  config,          \* runSync's local: the generated text
  \* environment
  tickPending,     \* ticker.C holds a tick (a channel of capacity 1)
  stopPending,     \* stop holds a signal (a channel of capacity 1)
  now,             \* the wall clock, in seconds
  store,           \* the content of the identity store
  \* FileManager and the file system
  lastContentHash, \* fm.lastContentHash
  cfgFile,         \* the file at fm.configFile
  tmpFile,         \* the temporary file of the publication in progress
  backups,         \* the regular files of fm.backupDir
  backupDirExists, \* fm.backupDir exists
  \* Reloader
  lastReload,      \* r.lastReload
  mutex,           \* r.mutex: the set of its holders (empty or one caller)
  minInterval,     \* r.minInterval
  reloadCommand,   \* strings.Fields(r.reloadCommand)
  rpc,             \* position of each further caller of ReloadConfig
  \* history, for stating properties
  last,            \* the last HasConfigChanged call and how its cycle ended
  prePublish,      \* the artifact as WriteConfigFile found it, while it runs
  lastCall,        \* the previous ReloadConfig call that got the lock
  \* GenerateConfig on its own
  gen

orchVars  == <<pc, initial, authToken, roles, users, config>>
envVars   == <<tickPending, stopPending, now, store>>
fmVars    == <<lastContentHash, cfgFile, tmpFile, backups, backupDirExists>>
rlVars    == <<lastReload, mutex, minInterval, reloadCommand>>
histVars  == <<last, prePublish, lastCall>>
vars == <<orchVars, envVars, fmVars, rlVars, rpc, histVars, gen>>

(***************************************************************************)
(* The identity store.  Its role list is fixed; content number n holds the *)
(* first n-1 users of an unbounded list.                                   *)
(***************************************************************************)
StoreRole ==
  [ID |-> "r1", Name |-> <<"a", " ", "b">>,
   PublishPermissions   |-> [kind |-> "list", items |-> << <<"a">>, <<"b">> >>],
   SubscribePermissions |-> [kind |-> "empty"]]

StoreUser(i) ==
  [ID |-> i, Username |-> [j \in 1..i |-> "a"], Password |-> <<"1">>,
   RoleID |-> "r1", Active |-> TRUE]

StoreRoles(n) == <<StoreRole>>
StoreUsers(n) == [i \in 1..(n - 1) |-> StoreUser(i)]
Candidate(n) == GenerateConfig(StoreRoles(n), StoreUsers(n))

(***************************************************************************)
(* Files.  A file is [exists, data]; data is a text.                       *)
(***************************************************************************)
Missing == [exists |-> FALSE, data |-> <<>>]
File(text) == [exists |-> TRUE, data |-> text]
Prefixes(text) == {SubSeq(text, 1, k) : k \in 0..(Len(text) - 1)}

\* calculateHash: SHA-256, taken to be free of collisions; "" is no digest
NoHash == <<>>
calculateHash(content) == <<content>>

(***************************************************************************)
(* The clock.  Time is in seconds from the zero time.Time; the process     *)
(* starts at least MinInterval after it.  The clock visits a few seconds   *)
(* after the start, after one minimum interval and after one retention     *)
(* window.  Time passes while main waits in its select and while the       *)
(* reload command runs.                                                    *)
(***************************************************************************)
StartTime == MinInterval
TimePoints ==
  {StartTime + b + d : b \in {0, MinInterval, BackupMaxAge + MinInterval + 1},
                       d \in 0..MaxAdvance}

Advance ==
  /\ pc \in {"idle", "r_exec"}
  /\ \E t \in TimePoints : t > now /\ now' = t
  /\ UNCHANGED <<orchVars, tickPending, stopPending, store, fmVars, rlVars,
                 rpc, histVars, gen>>

(***************************************************************************)
(* runSync's return (main.go:129-182).  A cycle that returns goes back to  *)
(* the caller: the initial sync to the main loop, a timer cycle to the     *)
(* sweep.  e is the error returned, "nil" for none.                        *)
(***************************************************************************)
AfterSync == IF initial THEN "idle" ELSE "sweep"

Return(e) ==
  /\ pc' = AfterSync
  /\ initial' = FALSE
  /\ UNCHANGED authToken
  /\ roles' = <<>>
  /\ users' = <<>>
  /\ config' = <<>>

\* the same, for a cycle that got as far as HasConfigChanged
Finish(e) ==
  /\ Return(e)
  /\ last' = [last EXCEPT !.result = e]

(***************************************************************************)
(* main's start (main.go:68-71): pbClient.Authenticate, and logger.Fatal   *)
(* when it fails, which ends the process (os.Exit(1)) before the file      *)
(* manager, the reloader, the signal channel and the ticker exist.         *)
(***************************************************************************)
NoToken == ""

\* a main that goes on when the authentication has failed
AuthenticateLenient ==
  /\ pc = "auth"
  /\ \E ok \in BOOLEAN :
       /\ authToken' = IF ok THEN "token" ELSE authToken
       /\ pc' = "fetchRoles"
  /\ UNCHANGED <<initial, roles, users, config, envVars, fmVars, rlVars, rpc,
                 histVars, gen>>

Authenticate ==
  /\ pc = "auth"
  /\ \E ok \in BOOLEAN :
       IF ok
       THEN /\ authToken' = "token"
            /\ pc' = "fetchRoles"
       ELSE /\ pc' = "fatal"
            /\ UNCHANGED authToken
  /\ UNCHANGED <<initial, roles, users, config, envVars, fmVars, rlVars, rpc,
                 histVars, gen>>

(***************************************************************************)
(* runSync: fetch roles, fetch users, generate (main.go:138-154).          *)
(***************************************************************************)
\* a runSync whose failure to fetch the roles ends the process
FetchRolesFatal ==
  /\ pc = "fetchRoles"
  /\ \E ok \in BOOLEAN :
       IF ok
       THEN /\ roles' = StoreRoles(store)
            /\ pc' = "fetchUsers"
       ELSE /\ pc' = "fatal"
            /\ UNCHANGED roles
  /\ UNCHANGED <<initial, authToken, users, config, envVars, fmVars, rlVars,
                 rpc, histVars, gen>>

\* pbClient.GetAllMqttRoles() and its error check
FetchRoles ==
  /\ pc = "fetchRoles"
  /\ \E ok \in BOOLEAN :
       IF ok
       THEN /\ roles' = StoreRoles(store)
            /\ pc' = "fetchUsers"
            /\ UNCHANGED <<initial, authToken, users, config>>
       ELSE Return("roles")
  /\ UNCHANGED <<envVars, fmVars, rlVars, rpc, histVars, gen>>

\* pbClient.GetAllMqttUsers() and its error check
FetchUsers ==
  /\ pc = "fetchUsers"
  /\ \E ok \in BOOLEAN :
       IF ok
       THEN /\ users' = StoreUsers(store)
            /\ pc' = "generate"
            /\ UNCHANGED <<initial, authToken, roles, config>>
       ELSE Return("users")
  /\ UNCHANGED <<envVars, fmVars, rlVars, rpc, histVars, gen>>

\* generator.GenerateConfig(roles, users)
Generate ==
  /\ pc = "generate"
  /\ config' = GenerateConfig(roles, users)
  /\ pc' = "detect"
  /\ UNCHANGED <<initial, authToken, roles, users, envVars, fmVars, rlVars, rpc, histVars, gen>>

(***************************************************************************)
(* FileManager.HasConfigChanged (part_001:367-419).  statErr and readErr   *)
(* are the file system's answers: os.Stat failing with something other     *)
(* than not-exist, os.ReadFile failing.                                    *)
(***************************************************************************)
\* a detector that forgets the candidate it compared with the file
HasConfigChangedForgetful(content, lastHash, file, statErr, readErr) ==
  LET contentHash == calculateHash(content) IN
  IF contentHash = lastHash
    THEN [changed |-> FALSE, err |-> FALSE, last |-> lastHash]
  ELSE IF ~file.exists /\ ~statErr
    THEN [changed |-> TRUE, err |-> FALSE, last |-> lastHash]
  ELSE IF statErr
    THEN [changed |-> FALSE, err |-> TRUE, last |-> lastHash]
  ELSE IF Len(file.data) = 0
    THEN [changed |-> TRUE, err |-> FALSE, last |-> lastHash]
  ELSE IF readErr
    THEN [changed |-> FALSE, err |-> TRUE, last |-> lastHash]
  ELSE [changed |-> calculateHash(file.data) # contentHash, err |-> FALSE,
        last |-> lastHash]

\* a detector that caches the candidate whatever the outcome
HasConfigChangedCacheOnError(content, lastHash, file, statErr, readErr) ==
  LET contentHash == calculateHash(content) IN
  IF contentHash = lastHash
    THEN [changed |-> FALSE, err |-> FALSE, last |-> contentHash]
  ELSE IF ~file.exists /\ ~statErr
    THEN [changed |-> TRUE, err |-> FALSE, last |-> contentHash]
  ELSE IF statErr
    THEN [changed |-> FALSE, err |-> TRUE, last |-> contentHash]
  ELSE IF Len(file.data) = 0
    THEN [changed |-> TRUE, err |-> FALSE, last |-> contentHash]
  ELSE IF readErr
    THEN [changed |-> FALSE, err |-> TRUE, last |-> contentHash]
  ELSE [changed |-> calculateHash(file.data) # contentHash, err |-> FALSE,
        last |-> contentHash]

\* a detector that looks at the file whatever the cache holds
HasConfigChangedUncached(content, lastHash, file, statErr, readErr) ==
  LET contentHash == calculateHash(content) IN
  IF ~file.exists /\ ~statErr
    THEN [changed |-> TRUE, err |-> FALSE, last |-> contentHash]
  ELSE IF statErr
    THEN [changed |-> FALSE, err |-> TRUE, last |-> lastHash]
  ELSE IF Len(file.data) = 0
    THEN [changed |-> TRUE, err |-> FALSE, last |-> contentHash]
  ELSE IF readErr
    THEN [changed |-> FALSE, err |-> TRUE, last |-> lastHash]
  ELSE [changed |-> calculateHash(file.data) # contentHash, err |-> FALSE,
        last |-> contentHash]

HasConfigChanged(content, lastHash, file, statErr, readErr) ==
  LET contentHash == calculateHash(content) IN
  IF contentHash = lastHash
    THEN [changed |-> FALSE, err |-> FALSE, last |-> lastHash]
  ELSE IF ~file.exists /\ ~statErr
    THEN [changed |-> TRUE, err |-> FALSE, last |-> contentHash]
  ELSE IF statErr
    THEN [changed |-> FALSE, err |-> TRUE, last |-> lastHash]
  ELSE IF Len(file.data) = 0
    THEN [changed |-> TRUE, err |-> FALSE, last |-> contentHash]
  ELSE IF readErr
    THEN [changed |-> FALSE, err |-> TRUE, last |-> lastHash]
  ELSE [changed |-> calculateHash(file.data) # contentHash, err |-> FALSE,
        last |-> contentHash]

\* a runSync that publishes whatever HasConfigChanged answers
DetectAlwaysPublish ==
  /\ pc = "detect"
  /\ \E statErr \in BOOLEAN, readErr \in BOOLEAN :
       LET r == HasConfigChanged(config, lastContentHash, cfgFile,
                                 statErr, readErr) IN
       /\ lastContentHash' = r.last
       /\ pc' = "w_create"
       /\ last' = [valid |-> TRUE, config |-> config,
                   changed |-> r.changed, result |-> "running"]
       /\ UNCHANGED <<initial, authToken, roles, users, config>>
  /\ UNCHANGED <<envVars, cfgFile, tmpFile, backups, backupDirExists, rlVars,
                 rpc, prePublish, lastCall, gen>>

\* runSync: "changed, err := fileManager.HasConfigChanged(config)", the error
\* check and the branch on changed (main.go:156-163, 177-181)
Detect ==
  /\ pc = "detect"
  /\ \E statErr \in BOOLEAN, readErr \in BOOLEAN :
       LET r == HasConfigChanged(config, lastContentHash, cfgFile,
                                 statErr, readErr) IN
       /\ lastContentHash' = r.last
       /\ IF r.err
          THEN /\ Return("detect")
               /\ last' = [valid |-> TRUE, config |-> config,
                           changed |-> r.changed, result |-> "detect"]
          ELSE IF r.changed
          THEN /\ pc' = "w_create"
               /\ last' = [valid |-> TRUE, config |-> config,
                           changed |-> TRUE, result |-> "running"]
               /\ UNCHANGED <<initial, authToken, roles, users, config>>
          ELSE /\ Return("nil")
               /\ last' = [valid |-> TRUE, config |-> config,
                           changed |-> FALSE, result |-> "nil"]
  /\ UNCHANGED <<envVars, cfgFile, tmpFile, backups, backupDirExists, rlVars,
                 rpc, prePublish, lastCall, gen>>

(***************************************************************************)
(* FileManager.WriteConfigFile (part_001:422-468), one action per file     *)
(* system call.  Each call may fail.  The deferred function runs when the  *)
(* method returns: it removes the temporary file if it is still there.     *)
(* tmpFile is the temporary file of the latest call: os.CreateTemp picks a *)
(* new name each time, whatever an earlier call left behind.               *)
(***************************************************************************)
\* a temporary file that stays behind: os.Remove failed on it.  Nothing
\* reads it again, so what it holds is not kept
Leftover(tmp) == [exists |-> tmp.exists, left |-> TRUE]
IsLeftover(f) == "left" \in DOMAIN f

\* a cleanup that removes nothing
CleanupKeep(tmp, removed) == tmp

\* the deferred cleanup (part_001:432-437): os.Stat finds the file and
\* os.Remove is called; its error is dropped.  removed: os.Remove succeeded
Cleanup(tmp, removed) == IF removed THEN Missing ELSE Leftover(tmp)

\* WriteConfigFile returns an error, and runSync returns it
WriteFails ==
  /\ Finish("write")
  /\ prePublish' = Missing

\* os.CreateTemp(dir, "nats-config-*.tmp")
WriteCreateTemp ==
  /\ pc = "w_create"
  /\ \E ok \in BOOLEAN :
       IF ok
       THEN /\ tmpFile' = File(<<>>)
            /\ prePublish' = cfgFile
            /\ pc' = "w_write"
            /\ UNCHANGED <<initial, authToken, roles, users, config, last>>
       ELSE /\ WriteFails
            /\ UNCHANGED tmpFile
  /\ UNCHANGED <<envVars, lastContentHash, cfgFile, backups, backupDirExists,
                 rlVars, rpc, lastCall, gen>>

\* a publisher that writes the text straight into the artifact
WriteStringInPlace ==
  /\ pc = "w_write"
  /\ \E ok \in BOOLEAN :
       IF ok
       THEN /\ cfgFile' = File(config)
            /\ pc' = "w_close"
            /\ UNCHANGED <<initial, authToken, roles, users, config, last, prePublish>>
       ELSE /\ \E part \in Prefixes(config) : cfgFile' = File(part)
            /\ WriteFails
  /\ UNCHANGED <<tmpFile, envVars, lastContentHash, backups, backupDirExists,
                 rlVars, rpc, lastCall, gen>>

\* tempFile.WriteString(content): a failing write leaves a prefix behind,
\* which the deferred cleanup then removes
WriteString ==
  /\ pc = "w_write"
  /\ \E ok \in BOOLEAN :
       IF ok
       THEN /\ tmpFile' = File(config)
            /\ pc' = "w_close"
            /\ UNCHANGED <<initial, authToken, roles, users, config, last, prePublish>>
       ELSE /\ \E part \in Prefixes(config), removed \in BOOLEAN :
                 tmpFile' = Cleanup(File(part), removed)
            /\ WriteFails
  /\ UNCHANGED <<cfgFile, envVars, lastContentHash, backups, backupDirExists,
                 rlVars, rpc, lastCall, gen>>

\* tempFile.Close()
WriteClose ==
  /\ pc = "w_close"
  /\ \E ok \in BOOLEAN :
       IF ok
       THEN /\ pc' = "w_backup"
            /\ UNCHANGED <<initial, authToken, roles, users, config, last, prePublish,
                           tmpFile>>
       ELSE /\ \E removed \in BOOLEAN : tmpFile' = Cleanup(tmpFile, removed)
            /\ WriteFails
  /\ UNCHANGED <<envVars, lastContentHash, cfgFile, backups, backupDirExists,
                 rlVars, rpc, lastCall, gen>>

(***************************************************************************)
(* FileManager.backupCurrentConfig (part_001:471-508).  The backup is      *)
(* named after the second it is taken in; os.Create truncates a file of    *)
(* that name.  how is the first call that fails, or "ok".  A failing       *)
(* io.Copy leaves a prefix of the source in the backup.                    *)
(***************************************************************************)
BackupOutcomes == {"ok", "mkdir", "open", "create", "copy"}

\* the backup directory has room for MaxBackups files
HasRoom(name) ==
  \/ \E b \in backups : b.name = name
  \/ Cardinality(backups) < MaxBackups

\* an entry of the backup directory; dir: it is a subdirectory
BackupFile(name, data) ==
  [name |-> name, data |-> data, mtime |-> now, dir |-> FALSE]

backupCurrentConfig(how, part) ==
  IF ~cfgFile.exists
    THEN UNCHANGED <<backups, backupDirExists>>
  ELSE IF how = "mkdir"
    THEN UNCHANGED <<backups, backupDirExists>>
  ELSE IF how \in {"open", "create"}
    THEN /\ backupDirExists' = TRUE
         /\ UNCHANGED backups
  ELSE /\ backupDirExists' = TRUE
       /\ backups' = {b \in backups : b.name # now}
                     \cup {BackupFile(now, IF how = "ok" THEN cfgFile.data
                                           ELSE part)}

\* a publisher that gives up when the backup cannot be made
WriteBackupFatal ==
  /\ pc = "w_backup"
  /\ \E how \in BackupOutcomes, part \in Prefixes(cfgFile.data) \cup {<<>>} :
       /\ how \in {"ok", "copy"} => HasRoom(now)
       /\ how # "copy" => part = <<>>
       /\ backupCurrentConfig(how, part)
       /\ IF how = "ok" \/ ~cfgFile.exists
          THEN /\ pc' = "w_rename"
               /\ UNCHANGED <<initial, authToken, roles, users, config, tmpFile,
                              histVars>>
          ELSE /\ \E removed \in BOOLEAN : tmpFile' = Cleanup(tmpFile, removed)
               /\ WriteFails
               /\ UNCHANGED lastCall
  /\ UNCHANGED <<envVars, lastContentHash, cfgFile, rlVars, rpc, gen>>

\* "if err := fm.backupCurrentConfig(); err != nil { Warn }": go on either way
WriteBackup ==
  /\ pc = "w_backup"
  /\ \E how \in BackupOutcomes, part \in Prefixes(cfgFile.data) \cup {<<>>} :
       /\ how \in {"ok", "copy"} => HasRoom(now)
       /\ how # "copy" => part = <<>>
       /\ backupCurrentConfig(how, part)
  /\ pc' = "w_rename"
  /\ UNCHANGED <<initial, authToken, roles, users, config, envVars, lastContentHash,
                 cfgFile, tmpFile, rlVars, rpc, histVars, gen>>

\* os.Rename(tempFilePath, fm.configFile): atomic
WriteRename ==
  /\ pc = "w_rename"
  /\ \E ok \in BOOLEAN :
       IF ok
       THEN /\ cfgFile' = tmpFile
            /\ tmpFile' = Missing
            /\ pc' = "w_chmod"
            /\ UNCHANGED <<initial, authToken, roles, users, config, last, prePublish>>
       ELSE /\ \E removed \in BOOLEAN : tmpFile' = Cleanup(tmpFile, removed)
            /\ WriteFails
            /\ UNCHANGED cfgFile
  /\ UNCHANGED <<envVars, lastContentHash, backups, backupDirExists, rlVars,
                 rpc, lastCall, gen>>

\* os.Chmod(fm.configFile, 0644): a failure is logged only; WriteConfigFile
\* returns nil and runSync goes on to reloader.ReloadConfig()
WriteChmod ==
  /\ pc = "w_chmod"
  /\ pc' = "r_lock"
  /\ prePublish' = Missing
  /\ UNCHANGED <<initial, authToken, roles, users, config, envVars, fmVars, rlVars, rpc,
                 last, lastCall, gen>>

(***************************************************************************)
(* FileManager.CleanupOldBackups(maxAge) (part_001:527-567).               *)
(***************************************************************************)
\* a sweep that also removes a file exactly maxAge old
ExpiredInclusive(maxAge) ==
  {b \in backups : ~b.dir /\ now - b.mtime >= maxAge}

\* "if file.IsDir() { continue }" and "now.Sub(fileInfo.ModTime()) > maxAge"
Expired(maxAge) == {b \in backups : ~b.dir /\ now - b.mtime > maxAge}

\* a sweep that stops at the first file whose Info or Remove fails
CleanupOldBackupsAbort(maxAge, readOk, stuck) ==
  IF ~backupDirExists \/ ~readOk \/ stuck # {}
  THEN UNCHANGED backups
  ELSE backups' = backups \ Expired(maxAge)

\* readOk: os.ReadDir succeeds; stuck: the files whose Info or Remove fails
CleanupOldBackups(maxAge, readOk, stuck) ==
  IF ~backupDirExists \/ ~readOk
  THEN UNCHANGED backups
  ELSE backups' = (backups \ Expired(maxAge)) \cup stuck

\* main.go:116-119: the sweep after a timer cycle; an error is logged only
Sweep ==
  /\ pc = "sweep"
  /\ \E readOk \in BOOLEAN, stuck \in SUBSET Expired(BackupMaxAge) :
       CleanupOldBackups(BackupMaxAge, readOk, stuck)
  /\ pc' = "idle"
  /\ UNCHANGED <<initial, authToken, roles, users, config, envVars, lastContentHash,
                 cfgFile, tmpFile, backupDirExists, rlVars, rpc, histVars, gen>>

(***************************************************************************)
(* Reloader.ReloadConfig (reloader.go:32-69), for caller c: take the       *)
(* mutex, check the interval and the command, run the command.  The        *)
(* orchestrator is caller 0.                                               *)
(***************************************************************************)
Orchestrator == 0

\* a ReloadConfig that does not wait for the mutex
ReloadLockShared(c) ==
  /\ mutex' = mutex \cup {c}
  /\ UNCHANGED <<lastReload, minInterval, reloadCommand>>

\* r.mutex.Lock()
ReloadLock(c) ==
  /\ mutex = {}
  /\ mutex' = {c}
  /\ UNCHANGED <<lastReload, minInterval, reloadCommand>>

\* time.Since(r.lastReload) < r.minInterval
Debounced == now - lastReload < minInterval

\* what ReloadConfig does once it holds the mutex: "skip" (too soon),
\* "empty" (no command to run) or "exec"
ReloadDecision ==
  IF Debounced THEN "skip"
  ELSE IF Len(reloadCommand) = 0 THEN "empty"
  ELSE "exec"

\* the checks of reloader.go:36-46; a return releases the mutex
ReloadCheck(c) ==
  /\ c \in mutex
  /\ mutex' = IF ReloadDecision = "exec" THEN mutex ELSE mutex \ {c}
  /\ UNCHANGED <<lastReload, minInterval, reloadCommand>>

\* a reloader that never notes the time of a reload
ReloadExecNoStamp(c, ok) ==
  /\ c \in mutex
  /\ mutex' = mutex \ {c}
  /\ UNCHANGED <<lastReload, minInterval, reloadCommand>>

\* a reloader that notes the time of a command that failed as well
ReloadExecAlwaysStamp(c, ok) ==
  /\ c \in mutex
  /\ lastReload' = now
  /\ mutex' = mutex \ {c}
  /\ UNCHANGED <<minInterval, reloadCommand>>

\* cmd.CombinedOutput() and what follows it (reloader.go:56-68)
ReloadExec(c, ok) ==
  /\ c \in mutex
  /\ lastReload' = IF ok THEN now ELSE lastReload
  /\ mutex' = mutex \ {c}
  /\ UNCHANGED <<minInterval, reloadCommand>>

(***************************************************************************)
(* ReloadConfig called by callers of its own (reloader.go:32-69): caller c  *)
(* waits for the mutex, makes the checks, runs the command.  lastCall      *)
(* keeps the call before: the time of its time.Since check, whether it ran *)
(* the command, whether it returned nil; and the time of the check of the  *)
(* last call whose command succeeded.                                      *)
(***************************************************************************)
Callers == 1..MaxCallers

\* Reloader.SetMinimumInterval (reloader.go:72-76): lock, assign, unlock
SetMinimumInterval(interval) ==
  /\ mutex = {}
  /\ minInterval' = interval
  /\ UNCHANGED <<lastReload, mutex, reloadCommand>>

\* the intervals a caller sets: the default and a shorter one
Intervals == {MinInterval, MinInterval - 2}

CallSetMinimumInterval ==
  /\ \E interval \in Intervals :
       /\ interval # minInterval
       /\ SetMinimumInterval(interval)
  /\ UNCHANGED <<orchVars, envVars, fmVars, rpc, histVars, gen>>

CallLock(c) ==
  /\ rpc[c] = "idle"
  /\ ReloadLock(c)
  /\ rpc' = [rpc EXCEPT ![c] = "check"]
  /\ UNCHANGED <<orchVars, envVars, fmVars, histVars, gen>>

CallCheck(c) ==
  /\ rpc[c] = "check"
  /\ ReloadCheck(c)
  /\ rpc' = [rpc EXCEPT ![c] = IF ReloadDecision = "exec" THEN "exec" ELSE "idle"]
  /\ lastCall' = [lastCall EXCEPT !.valid = TRUE,
                                  !.at = now,
                                  !.ran = (ReloadDecision = "exec"),
                                  !.ok = (ReloadDecision = "skip")]
  /\ UNCHANGED <<orchVars, envVars, fmVars, last, prePublish, gen>>

CallExec(c) ==
  /\ rpc[c] = "exec"
  /\ \E ok \in BOOLEAN :
       /\ ReloadExec(c, ok)
       /\ lastCall' = [lastCall EXCEPT !.ok = ok,
                                       !.ranOk = @ \/ ok,
                                       !.ranOkAt = IF ok THEN lastCall.at ELSE @]
  /\ rpc' = [rpc EXCEPT ![c] = "idle"]
  /\ UNCHANGED <<orchVars, envVars, fmVars, last, prePublish, gen>>

(***************************************************************************)
(* runSync: reloader.ReloadConfig() and its error check (main.go:171-181)  *)
(***************************************************************************)
SyncReloadLock ==
  /\ pc = "r_lock"
  /\ ReloadLock(Orchestrator)
  /\ pc' = "r_check"
  /\ UNCHANGED <<initial, authToken, roles, users, config, envVars, fmVars, rpc, histVars, gen>>

SyncReloadCheck ==
  /\ pc = "r_check"
  /\ ReloadCheck(Orchestrator)
  /\ CASE ReloadDecision = "skip"  -> Finish("nil")
       [] ReloadDecision = "empty" -> Finish("reload")
       [] ReloadDecision = "exec"  ->
            /\ pc' = "r_exec"
            /\ UNCHANGED <<initial, authToken, roles, users, config, last>>
  /\ UNCHANGED <<envVars, fmVars, rpc, prePublish, lastCall, gen>>

SyncReloadExec ==
  /\ pc = "r_exec"
  /\ \E ok \in BOOLEAN :
       /\ ReloadExec(Orchestrator, ok)
       /\ Finish(IF ok THEN "nil" ELSE "reload")
  /\ UNCHANGED <<envVars, fmVars, rpc, prePublish, lastCall, gen>>

(***************************************************************************)
(* main's loop (main.go:108-125): one select on ticker.C and stop.  When   *)
(* both are ready Go picks either.                                         *)
(***************************************************************************)
\* a main that starts a cycle the moment the ticker fires
SelectTickAnywhere ==
  /\ pc \notin {"auth", "fatal", "done", "off"}
  /\ tickPending
  /\ tickPending' = FALSE
  /\ pc' = "fetchRoles"
  /\ UNCHANGED <<initial, authToken, roles, users, config, stopPending, now, store,
                 fmVars, rlVars, rpc, histVars, gen>>

SelectTick ==
  /\ pc = "idle"
  /\ tickPending
  /\ tickPending' = FALSE
  /\ pc' = "fetchRoles"
  /\ UNCHANGED <<initial, authToken, roles, users, config, stopPending, now, store,
                 fmVars, rlVars, rpc, histVars, gen>>

\* a main that leaves as soon as the signal is there
SelectStopAnywhere ==
  /\ pc \notin {"done", "off"}
  /\ stopPending
  /\ pc' = "done"
  /\ UNCHANGED <<initial, authToken, roles, users, config, envVars, fmVars, rlVars, rpc,
                 histVars, gen>>

SelectStop ==
  /\ pc = "idle"
  /\ stopPending
  /\ pc' = "done"
  /\ UNCHANGED <<initial, authToken, roles, users, config, envVars, fmVars, rlVars, rpc,
                 histVars, gen>>

(***************************************************************************)
(* The environment.                                                        *)
(***************************************************************************)
Running == pc \notin {"auth", "fatal", "done", "off"}

\* the ticker fires; a tick is dropped when one is already waiting
TimerFires ==
  /\ Running
  /\ ~tickPending
  /\ tickPending' = TRUE
  /\ UNCHANGED <<orchVars, stopPending, now, store, fmVars, rlVars, rpc,
                 histVars, gen>>

\* SIGINT or SIGTERM arrives
Signal ==
  /\ Running
  /\ ~stopPending
  /\ stopPending' = TRUE
  /\ UNCHANGED <<orchVars, tickPending, now, store, fmVars, rlVars, rpc,
                 histVars, gen>>

\* the records of the identity store change between two cycles
StoreChanges ==
  /\ pc = "idle"
  /\ \E n \in 1..MaxStore : n # store /\ store' = n
  /\ UNCHANGED <<orchVars, tickPending, stopPending, now, fmVars, rlVars, rpc,
                 histVars, gen>>

\* no HasConfigChanged call yet, or the artifact was modified since
NoLast == [valid |-> FALSE, config |-> <<>>, changed |-> FALSE, result |-> "none"]

\* the last cycle published its candidate and returned nil, and the artifact
\* still holds that candidate
Published ==
  last.valid /\ last.changed /\ last.result = "nil" /\ cfgFile = File(last.config)
\* no cycle has ended since the published artifact was modified from outside
Tampered == [NoLast EXCEPT !.result = "modified"]

\* somebody else deletes, empties or replaces the artifact between cycles
ExternalContents ==
  {Missing, File(<<>>)} \cup {File(Candidate(n)) : n \in 1..MaxStore}

ExternalModify ==
  /\ pc = "idle"
  /\ \E f \in ExternalContents : f # cfgFile /\ cfgFile' = f
  /\ last' = IF Published \/ last.result = "modified" THEN Tampered ELSE NoLast
  /\ UNCHANGED <<orchVars, envVars, lastContentHash, tmpFile, backups,
                 backupDirExists, rlVars, rpc, prePublish, lastCall, gen>>

(***************************************************************************)
(* The program: main about to authenticate with the identity store.       *)
(***************************************************************************)
NoGen == [pc |-> "off"]
NoCall == [valid |-> FALSE, at |-> 0, ran |-> FALSE, ok |-> FALSE,
           ranOk |-> FALSE, ranOkAt |-> 0]

Init ==
  /\ pc = "auth"
  /\ initial = TRUE
  /\ authToken = NoToken
  /\ roles = <<>>
  /\ users = <<>>
  /\ config = <<>>
  /\ tickPending = FALSE
  /\ stopPending = FALSE
  /\ now = StartTime
  /\ store = 1
  /\ lastContentHash = NoHash
  /\ cfgFile \in {Missing, File(Candidate(1))}
  /\ tmpFile = Missing
  /\ backups = {}
  /\ backupDirExists = FALSE
  /\ lastReload = 0
  /\ mutex = {}
  /\ minInterval = MinInterval
  /\ reloadCommand = <<"reload">>
  /\ rpc = [c \in Callers |-> "off"]
  /\ last = NoLast
  /\ prePublish = Missing
  /\ lastCall = NoCall
  /\ gen = NoGen

Cycle ==
  \/ FetchRoles
  \/ FetchUsers
  \/ Generate
  \/ Detect
  \/ WriteCreateTemp
  \/ WriteString
  \/ WriteClose
  \/ WriteBackup
  \/ WriteRename
  \/ WriteChmod
  \/ SyncReloadLock
  \/ SyncReloadCheck
  \/ SyncReloadExec
  \/ Sweep

Environment ==
  \/ TimerFires
  \/ Signal
  \/ StoreChanges
  \/ ExternalModify
  \/ Advance

Next == Authenticate \/ Cycle \/ SelectTick \/ SelectStop \/ Environment

Spec == Init /\ [][Next]_vars

(***************************************************************************)
(* The program left alone with its artifact: nobody else writes the file.  *)
(***************************************************************************)
QuietEnvironment ==
  \/ TimerFires
  \/ Signal
  \/ StoreChanges
  \/ Advance

QuietNext == Authenticate \/ Cycle \/ SelectTick \/ SelectStop \/ QuietEnvironment

QuietSpec == Init /\ [][QuietNext]_vars

(***************************************************************************)
(* The Reloader on its own: MaxCallers callers of ReloadConfig, a clock    *)
(* that ticks in seconds, a reload command that is empty or not.  main is  *)
(* not running.                                                            *)
(***************************************************************************)
ReloadInit ==
  /\ pc = "off"
  /\ initial = FALSE
  /\ authToken = NoToken
  /\ roles = <<>>
  /\ users = <<>>
  /\ config = <<>>
  /\ tickPending = FALSE
  /\ stopPending = FALSE
  /\ now = StartTime
  /\ store = 1
  /\ lastContentHash = NoHash
  /\ cfgFile = Missing
  /\ tmpFile = Missing
  /\ backups = {}
  /\ backupDirExists = FALSE
  /\ lastReload = 0
  /\ mutex = {}
  /\ minInterval = MinInterval
  /\ reloadCommand \in {<<>>, <<"reload">>}
  /\ rpc = [c \in Callers |-> "idle"]
  /\ last = NoLast
  /\ prePublish = Missing
  /\ lastCall = NoCall
  /\ gen = NoGen

\* a second passes, up to two minimum intervals after the start
Elapse ==
  /\ pc = "off"
  /\ now < StartTime + 2 * MinInterval
  /\ now' = now + 1
  /\ UNCHANGED <<orchVars, tickPending, stopPending, store, fmVars, rlVars,
                 rpc, histVars, gen>>

ReloadNext ==
  \/ \E c \in Callers : CallLock(c)
  \/ \E c \in Callers : CallCheck(c)
  \/ \E c \in Callers : CallExec(c)
  \/ CallSetMinimumInterval
  \/ Elapse

ReloadSpec == ReloadInit /\ [][ReloadNext]_vars

(***************************************************************************)
(* GenerateConfig on its own: applied to a list of roles and a list of     *)
(* users, and to a permutation of each.  The records have distinct IDs.    *)
(***************************************************************************)
GenRoles ==
  {[ID |-> "r1", Name |-> <<"a", " ", "b">>,
    PublishPermissions   |-> [kind |-> "list", items |-> << <<"a">>, <<"b">> >>],
    SubscribePermissions |-> [kind |-> "empty"]],
   [ID |-> "r2", Name |-> <<"A", "_", "B">>,
    PublishPermissions   |-> [kind |-> "null"],
    SubscribePermissions |-> [kind |-> "list", items |-> << <<"a">> >>]],
   [ID |-> "r3", Name |-> <<"b", "!">>,
    PublishPermissions   |-> [kind |-> "invalid"],
    SubscribePermissions |-> [kind |-> "list", items |-> << <<"b">> >>]]}

GenUsers ==
  {[ID |-> 1, Username |-> <<"a">>, Password |-> <<"1">>, RoleID |-> "r1",
    Active |-> TRUE],
   [ID |-> 2, Username |-> <<"A">>, Password |-> <<"1">>, RoleID |-> "r2",
    Active |-> TRUE],
   [ID |-> 3, Username |-> <<"b">>, Password |-> <<"1">>, RoleID |-> "r3",
    Active |-> TRUE],
   [ID |-> 4, Username |-> <<"a", " ", "b">>, Password |-> <<"1">>,
    RoleID |-> "r9", Active |-> TRUE],
   [ID |-> 5, Username |-> <<"a", "!">>, Password |-> <<"1">>, RoleID |-> "r1",
    Active |-> TRUE],
   [ID |-> 6, Username |-> <<"B">>, Password |-> <<"1">>, RoleID |-> "r2",
    Active |-> FALSE]}

\* the lists of at most n distinct elements of S
ListsOf(S, n) ==
  UNION {{s \in [1..k -> S] : \A i, j \in 1..k : s[i] = s[j] => i = j} :
         k \in 0..n}

\* the orders in which the store may return the records of list s
Reorderings(s) ==
  {[i \in 1..Len(s) |-> s[p[i]]] : p \in Permutations(1..Len(s))}

GenInit ==
  /\ pc = "off"
  /\ initial = FALSE
  /\ authToken = NoToken
  /\ roles = <<>>
  /\ users = <<>>
  /\ config = <<>>
  /\ tickPending = FALSE
  /\ stopPending = FALSE
  /\ now = StartTime
  /\ store = 1
  /\ lastContentHash = NoHash
  /\ cfgFile = Missing
  /\ tmpFile = Missing
  /\ backups = {}
  /\ backupDirExists = FALSE
  /\ lastReload = 0
  /\ mutex = {}
  /\ minInterval = MinInterval
  /\ reloadCommand = <<"reload">>
  /\ rpc = [c \in Callers |-> "off"]
  /\ last = NoLast
  /\ prePublish = Missing
  /\ lastCall = NoCall
  /\ \E rs \in ListsOf(GenRoles, MaxRecords), us \in ListsOf(GenUsers, MaxRecords) :
       gen = [pc |-> "input", roles |-> rs, users |-> us,
              roles2 |-> rs, users2 |-> us, out |-> <<>>, out2 |-> <<>>]

\* the store returns the same records in another order
GenPermute ==
  /\ gen.pc = "input"
  /\ \E rs \in Reorderings(gen.roles), us \in Reorderings(gen.users) :
       gen' = [gen EXCEPT !.pc = "permuted", !.roles2 = rs, !.users2 = us]
  /\ UNCHANGED <<orchVars, envVars, fmVars, rlVars, rpc, histVars>>

\* GenerateConfig on the list and on the reordered list
GenApply ==
  /\ gen.pc = "permuted"
  /\ gen' = [gen EXCEPT !.pc = "done",
                        !.out = GenerateConfig(gen.roles, gen.users),
                        !.out2 = GenerateConfig(gen.roles2, gen.users2)]
  /\ UNCHANGED <<orchVars, envVars, fmVars, rlVars, rpc, histVars>>

GenNext == GenPermute \/ GenApply

GenSpec == GenInit /\ [][GenNext]_vars

(***************************************************************************)
(* CleanupOldBackups on its own: applied with a retention window to a      *)
(* backup directory holding files and subdirectories of several ages.      *)
(***************************************************************************)
SweepNames == {"x", "y"}
SweepAges == {0, 2}
\* modification times around the edge of the window, and one in the future
SweepTimes(maxAge) ==
  {StartTime - maxAge - 1, StartTime - maxAge, StartTime - maxAge + 1, StartTime + 1}

SweepEntries(maxAge) ==
  [name : SweepNames, data : {<<>>}, mtime : SweepTimes(maxAge), dir : BOOLEAN]

SweepInit ==
  /\ pc = "off"
  /\ initial = FALSE
  /\ authToken = NoToken
  /\ roles = <<>>
  /\ users = <<>>
  /\ config = <<>>
  /\ tickPending = FALSE
  /\ stopPending = FALSE
  /\ now = StartTime
  /\ store = 1
  /\ lastContentHash = NoHash
  /\ cfgFile = Missing
  /\ tmpFile = Missing
  /\ lastReload = 0
  /\ mutex = {}
  /\ minInterval = MinInterval
  /\ reloadCommand = <<"reload">>
  /\ rpc = [c \in Callers |-> "off"]
  /\ last = NoLast
  /\ prePublish = Missing
  /\ lastCall = NoCall
  /\ \E maxAge \in SweepAges :
       /\ gen = [pc |-> "sweep", maxAge |-> maxAge]
       /\ backupDirExists \in BOOLEAN
       /\ backups \in
            {d \in SUBSET SweepEntries(maxAge) :
               /\ \A a, b \in d : a.name = b.name => a = b
               /\ ~backupDirExists => d = {}}

\* one call of CleanupOldBackups(gen.maxAge); kept are the directory before
\* the call, the files whose Info or Remove failed, and the value returned
SweepApply ==
  /\ gen.pc = "sweep"
  /\ \E readOk \in BOOLEAN, stuck \in SUBSET Expired(gen.maxAge) :
       /\ ~readOk => stuck = {}
       /\ CleanupOldBackups(gen.maxAge, readOk, stuck)
       /\ gen' = [pc |-> "swept", maxAge |-> gen.maxAge, before |-> backups,
                  stuck |-> stuck,
                  result |-> IF backupDirExists /\ ~readOk THEN "error"
                             ELSE "nil"]
  /\ UNCHANGED <<orchVars, envVars, lastContentHash, cfgFile, tmpFile,
                 backupDirExists, rlVars, rpc, histVars>>

SweepNext == SweepApply

SweepSpec == SweepInit /\ [][SweepNext]_vars

(***************************************************************************)
(* Fairness: the program takes its next step, and a select that finds the  *)
(* stop channel ready again and again takes it in the end (Go picks among  *)
(* the ready cases at random).                                             *)
(***************************************************************************)
Fairness == WF_vars(Cycle) /\ SF_vars(SelectStop)

FairSpec == Spec /\ Fairness

(***************************************************************************)
(* The program running on with no signal to stop it and nothing failing:   *)
(* every fetch, file system call and reload command of the cycle succeeds, *)
(* the ticker keeps firing, the select takes the tick, the clock goes on.  *)
(***************************************************************************)
LiveEnvironment ==
  \/ TimerFires
  \/ StoreChanges
  \/ ExternalModify
  \/ Advance

\* the step of the cycle returns no error
StepOk ==
  /\ (pc \in {"fetchRoles", "fetchUsers"}) => (pc' \notin {"idle", "sweep"})
  /\ (pc \in {"detect", "w_create", "w_write", "w_close", "w_rename", "r_check",
              "r_exec"}) =>
       (last'.result \notin {"detect", "write", "reload"})

CycleOk == Cycle /\ StepOk

LiveNext == Authenticate \/ CycleOk \/ SelectTick \/ LiveEnvironment

LiveFairness ==
  /\ WF_vars(Authenticate)
  /\ WF_vars(CycleOk)
  /\ WF_vars(TimerFires)
  /\ WF_vars(SelectTick)
  /\ WF_vars(Advance)

LiveSpec == Init /\ [][LiveNext]_vars /\ LiveFairness

(***************************************************************************)
(* Properties.                                                             *)
(***************************************************************************)
WriteSteps == {"w_create", "w_write", "w_close", "w_backup", "w_rename", "w_chmod"}
InsideWrite == WriteSteps \ {"w_create"}
SyncSteps ==
  {"fetchRoles", "fetchUsers", "generate", "detect", "r_lock", "r_check", "r_exec"}
  \cup WriteSteps

\* C1: while WriteConfigFile runs, and after any of its steps has failed,
\* the artifact holds either what it held when the publication began or the
\* complete new text: every step leaves it as it is or makes it the new text.
C1_Atomicity ==
  /\ [](pc \in InsideWrite => cfgFile \in {prePublish, File(config)})
  /\ [][(pc \in WriteSteps) => (cfgFile' \in {cfgFile, File(config)})]_vars

\* a publication over an existing artifact, its temporary file written
C1_Witness ==
  /\ pc = "w_rename"
  /\ prePublish.exists
  /\ cfgFile = prePublish
  /\ tmpFile = File(config)

\* C2 (as claimed): when the cycle before detected a change and its
\* WriteConfigFile failed, HasConfigChanged reports changed again for the
\* same candidate.
C2_RetryAfterFailedWrite ==
  [][(/\ pc = "detect"
      /\ last.valid
      /\ last.result = "write"
      /\ last.config = config
      /\ last'.result # "detect") => last'.changed]_vars

\* C3 (as claimed): when the cycle before published and its ReloadConfig
\* failed, the next cycle with the same candidate does not end with "no
\* config changes detected": it goes on to reload.
C3_RetryAfterFailedReload ==
  [][(/\ pc = "detect"
      /\ last.valid
      /\ last.result = "reload"
      /\ last.config = config
      /\ last'.result # "detect") => last'.changed]_vars

\* C6 (as claimed): a HasConfigChanged call with the candidate of the call
\* before it, the artifact not modified from outside in between, answers
\* changed = false.
C6_Idempotent ==
  [][(/\ pc = "detect"
      /\ pc' # "detect"
      /\ last.valid
      /\ last.config = config) => ~last'.changed]_vars

\* C6 (amended): the same, when the call before returned no error.
C6_IdempotentAfterSuccess ==
  [][(/\ pc = "detect"
      /\ pc' # "detect"
      /\ last.valid
      /\ last.result # "detect"
      /\ last.config = config) => (~last'.changed /\ last'.result = "nil")]_vars

\* the second call answered "unchanged" from the cache: the artifact differs
C6_Witness ==
  /\ last.valid
  /\ last.result = "nil"
  /\ ~last.changed
  /\ cfgFile # File(last.config)

\* C7: WriteConfigFile is entered only by a HasConfigChanged that returned
\* changed = true and no error, and ReloadConfig only by a WriteConfigFile
\* of the same cycle that returned success.
C7_PublishThenReload ==
  [][/\ (pc' = "w_create" /\ pc # "w_create")
          => (pc = "detect" /\ last'.changed /\ last'.result = "running")
     /\ (pc' = "r_lock" /\ pc # "r_lock")
          => (pc = "w_chmod" /\ last.changed /\ cfgFile = File(config))
     /\ (pc' \in {"r_check", "r_exec"} /\ pc # pc')
          => pc \in {"r_lock", "r_check"}]_vars

\* the reload command runs, the artifact holding the cycle's candidate
C7_Witness ==
  /\ pc = "r_exec"
  /\ last.changed
  /\ cfgFile = File(config)

\* C8: the process ends only from the select, never out of a running
\* cycle, and a signal is followed by the end of the process.
C8_Cancellation ==
  /\ [][pc' = "done" => (pc = "idle" /\ stopPending)]_vars
  /\ [][(stopPending /\ pc \in SyncSteps) => pc' \in SyncSteps \cup {"idle", "sweep"}]_vars
  /\ (stopPending ~> pc = "done")

\* a signal is waiting while the cycle is in the middle of a publication
C8_Witness ==
  /\ stopPending
  /\ tickPending
  /\ pc = "w_rename"

\* C9 (as claimed): with the signal received, the select starts no cycle.
C9_NoCycleAfterSignal ==
  [][(stopPending /\ pc = "idle") => pc' # "fetchRoles"]_vars

\* C10 (as claimed): main goes idle only out of CleanupOldBackups.
C10_SweepAfterEveryCycle ==
  [][(pc' = "idle" /\ pc # "idle") => pc = "sweep"]_vars

\* the second of two consecutive calls is at its time.Since check, less
\* than the minimum interval after the first
SecondCallChecks(c) ==
  /\ rpc[c] = "check"
  /\ rpc'[c] # "check"
  /\ lastCall.valid
  /\ now - lastCall.at < minInterval

C5_Determinism ==
  gen.pc = "done" => gen.out = gen.out2

\* C16: a failed authentication at startup ends the process: no step of a
\* cycle is ever taken without a token, the process stays ended, and up to
\* then the artifact, the backups, the fingerprint cache and the reloader
\* are left as they were.
C16_AuthFatal ==
  /\ [](pc \notin {"auth", "fatal", "off"} => authToken # NoToken)
  /\ [][pc = "fatal" => pc' = "fatal"]_vars
  /\ [][(pc \in {"auth", "fatal"}) => UNCHANGED <<fmVars, rlVars, histVars>>]_vars

\* the process has ended on a failed authentication, an artifact in place
C16_Witness ==
  /\ pc = "fatal"
  /\ authToken = NoToken
  /\ cfgFile.exists

FetchSteps == {"fetchRoles", "fetchUsers"}

\* C11: a cycle whose fetch of the roles or of the users fails ends there:
\* the step leaves the file manager (artifact, backups, fingerprint cache,
\* temporary file) and the reloader (last reload time) as they were and runs
\* no reload command; main goes on to the sweep or to its select, never out
\* of the loop, and at the select a pending tick can start the next cycle.
C11_FetchFailureFrame ==
  /\ [][(pc \in FetchSteps /\ pc' \in {"idle", "sweep"})
          => UNCHANGED <<fmVars, rlVars>>]_vars
  /\ [][(pc \in FetchSteps)
          => (pc' \in FetchSteps \cup {"generate", "idle", "sweep"})]_vars
  /\ [][(pc = "sweep") => (pc' \in {"sweep", "idle"})]_vars
  /\ [](pc = "idle" /\ tickPending => ENABLED SelectTick)

\* a timer cycle has ended before HasConfigChanged, the artifact in place
C11_Witness ==
  /\ pc = "sweep"
  /\ ~last.valid
  /\ cfgFile.exists
  /\ lastContentHash = NoHash

Executing == {c \in Callers : rpc[c] = "exec"}

\* C12: whatever the interleaving of the callers, at most one of them is
\* running the reload command, a caller past the lock holds the mutex
\* alone, and a command is started only when at least the minimum interval
\* has passed since the last successful command ended (and so since the
\* call that ran it).
C12_ConcurrentReload ==
  /\ [](Cardinality(Executing) <= 1)
  /\ [](\A c \in Callers : rpc[c] \in {"check", "exec"} => mutex = {c})
  /\ [][\A c \in Callers :
          (rpc[c] = "check" /\ rpc'[c] = "exec" /\ lastCall.ranOk)
          => (/\ now - lastReload >= minInterval
              /\ now - lastCall.ranOkAt >= minInterval)]_vars

\* a second command is running, a full interval after a successful one
C12_Witness ==
  /\ lastCall.ranOk
  /\ lastCall.ran
  /\ lastCall.at - lastCall.ranOkAt >= minInterval
  /\ Cardinality(Executing) = 1

\* the users of a list whose RoleID is the ID of one of the roles, in order
KnownUsers(rs, us) == SelectSeq(us, LAMBDA u : HasRole(rs, u.RoleID))
DanglingUsers(rs, us) ==
  {us[i] : i \in {j \in 1..Len(us) : ~HasRole(rs, us[j].RoleID)}}
\* the user lines of a generated text, top to bottom
UserLines(text) == SelectSeq(text, LAMBDA l : l.line = "user")

\* C13: GenerateConfig returns a text for every input; no user line of it
\* names a user whose RoleID is the ID of no role, and its user lines are
\* those of the text generated from the input without those users.
C13_DanglingExcluded ==
  gen.pc = "done" =>
    LET lines == UserLines(gen.out)
        known == KnownUsers(gen.roles, gen.users)
    IN /\ gen.out # <<>>
       /\ gen.out[1].line = "defaults"
       /\ \A u \in DanglingUsers(gen.roles, gen.users) :
            \A i \in 1..Len(lines) : lines[i].entry.Username # Quote(u.Username)
       /\ Len(lines) = Len(known)
       /\ lines = UserLines(GenerateConfig(gen.roles, known))

\* generated from a user with an unknown role and a user with a known one
C13_Witness ==
  /\ gen.pc = "done"
  /\ DanglingUsers(gen.roles, gen.users) # {}
  /\ Len(gen.users) = MaxRecords
  /\ Len(UserLines(gen.out)) = 1

\* the regular files of a directory listing older than the window
OldFiles(d, maxAge) == {b \in d : ~b.dir /\ now - b.mtime > maxAge}

\* C14: after CleanupOldBackups(maxAge) has returned nil, no regular file
\* older than now - maxAge is left but those whose Info or Remove failed,
\* and every file within the window and every subdirectory is still there;
\* when it returns an error the directory is as it was.
C14_Retention ==
  gen.pc = "swept" =>
    /\ gen.result = "nil" =>
         /\ \A b \in OldFiles(gen.before, gen.maxAge) :
              b \in backups <=> b \in gen.stuck
         /\ \A b \in gen.before \ OldFiles(gen.before, gen.maxAge) : b \in backups
         /\ backups \subseteq gen.before
    /\ gen.result = "error" => backups = gen.before

\* swept: an old file removed, and a file exactly maxAge old or a
\* subdirectory kept
C14_Witness ==
  /\ gen.pc = "swept"
  /\ gen.result = "nil"
  /\ OldFiles(gen.before, gen.maxAge) \ backups # {}
  /\ \E b \in backups : b.dir \/ now - b.mtime = gen.maxAge

\* C14 (as claimed): after CleanupOldBackups(maxAge) returns, whatever it
\* returns, every regular file older than now - maxAge whose removal did not
\* fail is gone.
C14_RetentionAsClaimed ==
  gen.pc = "swept" =>
    \A b \in OldFiles(gen.before, gen.maxAge) : b \in backups => b \in gen.stuck

\* C15 (as claimed): a backup written by a publication holds exactly what
\* the artifact held at that moment, and no step but the sweep changes or
\* removes a backup that exists.
C15_ImmutableBackups ==
  /\ [][(pc = "w_backup") =>
          (\A b \in backups' \ backups : b.data = cfgFile.data)]_vars
  /\ [][(pc # "sweep") => (\A b \in backups : b \in backups')]_vars

\* the step of runSync that calls HasConfigChanged and acts on its answer
DetectStep == pc = "detect" /\ pc' # "detect"

\* C17: after a call of HasConfigChanged that returns no error the cached
\* fingerprint is the fingerprint of the candidate of that call; a call
\* that returns an error leaves the cached fingerprint as it was.
C17_CacheAfterCall ==
  [][DetectStep =>
       IF last'.result = "detect"
       THEN lastContentHash' = lastContentHash
       ELSE lastContentHash' = calculateHash(config)]_vars

\* a call failed on the file, the cache not holding its candidate
C17_Witness ==
  /\ last.valid
  /\ last.result = "detect"
  /\ lastContentHash # calculateHash(last.config)
  /\ pc \in {"idle", "sweep"}

\* C17 (as claimed): after every call of HasConfigChanged the cached
\* fingerprint is the fingerprint of the candidate of that call.
C17_CacheAlwaysCandidate ==
  [][DetectStep => lastContentHash' = calculateHash(config)]_vars

\* what the file says about a candidate: changed when the artifact is
\* missing, is empty, or has another fingerprint
FileDiffers(content, file) ==
  \/ ~file.exists
  \/ Len(file.data) = 0
  \/ calculateHash(file.data) # calculateHash(content)

\* C18: a candidate whose fingerprint is the cached one is answered
\* "unchanged" with no error, whatever the file holds and whether or not it
\* can be read.  Otherwise a stat error other than not-exist is returned as
\* an error; a missing file and an empty file give "changed" with no error;
\* a file that cannot be read gives an error; and a file that was read gives
\* "changed" exactly when its fingerprint is not the candidate's.  runSync
\* acts on one of these answers.
C18_DecisionRule ==
  /\ [](pc = "detect" =>
         \A statErr \in BOOLEAN, readErr \in BOOLEAN :
           LET r == HasConfigChanged(config, lastContentHash, cfgFile,
                                     statErr, readErr)
           IN IF calculateHash(config) = lastContentHash
                THEN ~r.changed /\ ~r.err
              ELSE IF statErr THEN r.err
              ELSE IF ~cfgFile.exists \/ Len(cfgFile.data) = 0
                THEN r.changed /\ ~r.err
              ELSE IF readErr THEN r.err
              ELSE ~r.err /\ (r.changed <=> FileDiffers(config, cfgFile)))
  /\ [][DetectStep =>
          IF calculateHash(config) = lastContentHash
          THEN last'.result = "nil" /\ ~last'.changed
          ELSE \/ last'.result = "detect"
               \/ last'.changed <=> FileDiffers(config, cfgFile)]_vars

\* a publication begun because the artifact is an empty file
C18_Witness ==
  /\ pc = "w_create"
  /\ last.changed
  /\ cfgFile.exists
  /\ Len(cfgFile.data) = 0

\* caller c makes the checks of ReloadConfig / its command ends
CheckStep(c) == rpc[c] = "check" /\ rpc'[c] # "check"
ExecStep(c) == rpc[c] = "exec" /\ rpc'[c] # "exec"

\* C19: a call that finds the reloader ready (not within the minimum
\* interval of the last successful reload) runs the command, once; with no
\* command to run, or when the command fails, the call returns an error,
\* the timestamp is left as it was and the reloader is still ready; when the
\* command succeeds the call returns nil, the timestamp becomes the time of
\* that moment and the reloader is in cool-down; a call made in cool-down
\* returns nil, runs nothing and leaves the timestamp as it was.  The
\* timestamp changes in no other step.
C19_ReloadStateMachine ==
  /\ [][\A c \in Callers : CheckStep(c) =>
          IF Debounced
            THEN /\ rpc'[c] = "idle"
                 /\ lastCall'.ok /\ ~lastCall'.ran
                 /\ lastReload' = lastReload
          ELSE IF Len(reloadCommand) = 0
            THEN /\ rpc'[c] = "idle"
                 /\ ~lastCall'.ok /\ ~lastCall'.ran
                 /\ lastReload' = lastReload
                 /\ ~Debounced'
          ELSE /\ rpc'[c] = "exec"
               /\ lastCall'.ran
               /\ lastReload' = lastReload]_vars
  /\ [][\A c \in Callers : ExecStep(c) =>
          /\ rpc'[c] = "idle"
          /\ IF lastCall'.ok
               THEN lastReload' = now /\ Debounced'
               ELSE lastReload' = lastReload /\ ~Debounced']_vars
  /\ [][lastReload' # lastReload =>
          (\E c \in Callers : ExecStep(c) /\ lastCall'.ok)]_vars

\* a command has failed after an earlier one succeeded: the timestamp is
\* still that of the earlier one and the reloader is ready
C19_Witness ==
  /\ \A c \in Callers : rpc[c] = "idle"
  /\ lastCall.ran
  /\ ~lastCall.ok
  /\ lastCall.ranOk
  /\ lastReload # 0
  /\ lastReload < now
  /\ ~Debounced

\* C20: once WriteConfigFile has returned, the temporary file it created is
\* gone, or it is one that os.Remove failed to remove; after a return with
\* success it is gone.
C20_TempFileCleanup ==
  /\ [](pc \notin WriteSteps => (tmpFile = Missing \/ IsLeftover(tmpFile)))
  /\ [](pc \in {"w_chmod", "r_lock", "r_check", "r_exec"} => tmpFile = Missing)

\* a publication has failed after the backup was made: no temporary file
C20_Witness ==
  /\ pc \in {"idle", "sweep"}
  /\ last.valid
  /\ last.result = "write"
  /\ backups # {}
  /\ cfgFile # File(last.config)
  /\ tmpFile = Missing

\* C20 (as claimed): whenever WriteConfigFile has returned, no temporary
\* file exists.
C20_NoTempFileLeft ==
  [](pc \notin WriteSteps => tmpFile = Missing)

\* the steps of WriteConfigFile on the temporary file, whose failure is
\* returned
FatalWriteSteps == {"w_create", "w_write", "w_close", "w_rename"}

\* C21: the backup step goes on to the rename whatever its outcome, leaving
\* the artifact and the temporary file alone; a rename that succeeds puts
\* the new text in place, and the permission step then returns success and
\* the cycle goes on to ReloadConfig, whatever os.Chmod answered.  A failure
\* to create, write, close or rename the temporary file is returned as an
\* error: the cycle ends there, the reloader untouched, and ReloadConfig is
\* entered from nowhere but a WriteConfigFile that returned success.
C21_NonFatalFailures ==
  /\ [][(pc = "w_backup" /\ pc' # pc) =>
          (pc' = "w_rename" /\ UNCHANGED <<cfgFile, tmpFile, last>>)]_vars
  /\ [][(pc = "w_rename" /\ pc' = "w_chmod") => cfgFile' = File(config)]_vars
  /\ [][(pc = "w_chmod" /\ pc' # pc) =>
          (pc' = "r_lock" /\ cfgFile' = File(config) /\ UNCHANGED last)]_vars
  /\ [][(pc \in FatalWriteSteps /\ pc' \notin WriteSteps) =>
          (/\ last'.result = "write"
           /\ pc' \in {"idle", "sweep"}
           /\ UNCHANGED rlVars)]_vars
  /\ [][(pc' = "r_lock" /\ pc # "r_lock") => pc = "w_chmod"]_vars

\* the artifact there was has been replaced although no backup of it was
\* made
C21_Witness ==
  /\ pc = "w_chmod"
  /\ prePublish.exists
  /\ prePublish # cfgFile
  /\ cfgFile = File(config)
  /\ backups = {}

\* C22: CleanupOldBackups returns nil when the backup directory does not
\* exist, changing nothing; and when Info or Remove fails on some expired
\* files it returns nil all the same, having removed every other expired
\* file and nothing else.
C22_SweepErrors ==
  gen.pc = "swept" =>
    /\ ~backupDirExists => (gen.result = "nil" /\ backups = gen.before)
    /\ gen.stuck # {} =>
         /\ gen.result = "nil"
         /\ backups = (gen.before \ OldFiles(gen.before, gen.maxAge)) \cup gen.stuck

\* of two expired files one could not be removed and the other is gone
C22_Witness ==
  /\ gen.pc = "swept"
  /\ gen.stuck # {}
  /\ OldFiles(gen.before, gen.maxAge) \ gen.stuck # {}
  /\ OldFiles(gen.before, gen.maxAge) \cap backups = gen.stuck

\* the role lines of a generated text, top to bottom
RoleLines(text) == SelectSeq(text, LAMBDA l : l.line = "role")
\* the username inside the quotes of a user entry
Unquote(s) == SubSeq(s, 2, Len(s) - 1)
\* the keys never go down along the sequence
Ascending(keys) ==
  \A i \in 1..(Len(keys) - 1) : ~StrLess(keys[i + 1], keys[i])

\* C23 (as claimed): in the generated text the role lines are in ascending
\* byte order of their names and the user lines in ascending byte order of
\* their lowercased usernames.
C23_OutputOrdering ==
  gen.pc = "done" =>
    LET rs == RoleLines(gen.out)
        us == UserLines(gen.out)
    IN /\ Ascending([i \in 1..Len(rs) |-> rs[i].entry.Name])
       /\ Ascending([i \in 1..Len(us) |-> ToLower(Unquote(us[i].entry.Username))])

\* the quoted usernames of the user lines of a text
LineNames(text) ==
  {UserLines(text)[i].entry.Username : i \in 1..Len(UserLines(text))}

\* C24: GenerateConfig does not look at the active flag: the user lines are
\* those of the records whose RoleID is known, one each, whether the record
\* is active or not.
C24_ActiveFlagNotChecked ==
  gen.pc = "done" =>
    LET known == KnownUsers(gen.roles, gen.users)
    IN /\ Len(UserLines(gen.out)) = Len(known)
       /\ LineNames(gen.out) = {Quote(known[i].Username) : i \in 1..Len(known)}

\* a record with active = false and a known role was passed, and has a line
C24_Witness ==
  /\ gen.pc = "done"
  /\ \E i \in 1..Len(gen.users) :
       /\ ~gen.users[i].Active
       /\ HasRole(gen.roles, gen.users[i].RoleID)
       /\ Quote(gen.users[i].Username) \in LineNames(gen.out)

\* C24 (as claimed): a record with active = false passed to GenerateConfig
\* has no line in the generated text.
C24_OnlyActiveUsers ==
  gen.pc = "done" =>
    \A i \in 1..Len(gen.users) :
      ~gen.users[i].Active => Quote(gen.users[i].Username) \notin LineNames(gen.out)

\* the token written for no permissions: two double quotes
EmptyToken == <<"\"", "\"">>
\* a raw permission field json.Unmarshal into []string rejects
Malformed(raw) == raw.kind = "invalid"
\* the roles, each malformed permission field replaced by one with no bytes
Repaired(rs) ==
  [i \in 1..Len(rs) |->
     [rs[i] EXCEPT
        !.PublishPermissions =
           IF Malformed(@) THEN [kind |-> "empty"] ELSE @,
        !.SubscribePermissions =
           IF Malformed(@) THEN [kind |-> "empty"] ELSE @]]

\* C25: GenerateConfig returns for roles with a malformed permission field
\* the text it returns for the same roles with that field empty: the field
\* is written as the empty-string token, and the role's other field, the
\* other roles and the users come out as they would otherwise.
C25_MalformedDegrades ==
  gen.pc = "done" =>
    /\ gen.out = GenerateConfig(Repaired(gen.roles), gen.users)
    /\ Len(RoleLines(gen.out)) = Len(gen.roles)
    /\ \A i \in 1..Len(gen.roles) :
         \E j \in 1..Len(RoleLines(gen.out)) :
           LET e == RoleLines(gen.out)[j].entry
               r == gen.roles[i]
           IN /\ e.Name = NormalizeRoleName(r)
              /\ Malformed(r.PublishPermissions) => e.PublishPermissions = EmptyToken
              /\ Malformed(r.SubscribePermissions) => e.SubscribePermissions = EmptyToken
              /\ ~Malformed(r.PublishPermissions) =>
                   e.PublishPermissions = FormatPublishPermissions(r)
              /\ ~Malformed(r.SubscribePermissions) =>
                   e.SubscribePermissions = FormatSubscribePermissions(r)

\* a role with a malformed publish field: that field is the empty token,
\* its subscribe field is written out, and a user of the role has a line
C25_Witness ==
  /\ gen.pc = "done"
  /\ \E i \in 1..Len(gen.roles) : Malformed(gen.roles[i].PublishPermissions)
  /\ \E j \in 1..Len(RoleLines(gen.out)) :
       /\ RoleLines(gen.out)[j].entry.PublishPermissions = EmptyToken
       /\ RoleLines(gen.out)[j].entry.SubscribePermissions # EmptyToken
       /\ RoleLines(gen.out)[j].entry.Name = <<"B">>
  /\ Len(UserLines(gen.out)) >= 1

\* main is inside runSync or inside the sweep that follows it
Busy == pc \in SyncSteps \cup {"sweep"}
CycleStarts == pc' = "fetchRoles" /\ pc # "fetchRoles"

\* C26: main goes from its start straight into the first cycle; a cycle
\* starts from nowhere but the start of main and the select, where it takes
\* the waiting tick; while a cycle or its sweep runs the select cannot take
\* a tick, a tick that fires then stays waiting, and the cycle goes on with
\* its own steps.
C26_SingleTimeline ==
  /\ [][(pc = "auth" /\ pc' # "auth") => (pc' \in {"fetchRoles", "fatal"})]_vars
  /\ [](initial => pc \in SyncSteps \cup {"auth", "fatal"})
  /\ [][CycleStarts =>
          \/ pc = "auth"
          \/ pc = "idle" /\ tickPending /\ ~tickPending']_vars
  /\ [](Busy => ~ENABLED SelectTick)
  /\ [][(Busy /\ tickPending) =>
          (tickPending' /\ pc' \in SyncSteps \cup {"sweep", "idle"})]_vars

\* the ticker has fired while the first cycle is publishing
C26_Witness ==
  /\ initial
  /\ tickPending
  /\ pc = "w_rename"

\* runSync returns to main
SyncReturns == pc \in SyncSteps /\ pc' \notin SyncSteps

\* C27 (as claimed): when runSync returns nil from a cycle that generated a
\* candidate, nobody else having written the artifact, the artifact holds
\* that candidate.
C27_SuccessMeansInSync ==
  [][(SyncReturns /\ last'.valid /\ last'.result = "nil") =>
       cfgFile' = File(last'.config)]_vars

\* C28 (as claimed): when the ReloadConfig call of a publishing cycle is
\* debounced, the new text in place, the reload command is run later on.
C28_EventuallySignaled ==
  (pc = "r_check" /\ Debounced /\ cfgFile = File(config)) ~> (pc = "r_exec")

\* C29 (as claimed): when the artifact, published by the last cycle from the
\* records as they are, has been deleted, emptied or altered from outside,
\* then, unless the records change, the artifact holds the candidate of the
\* records again later on.
C29_SelfHealing ==
  \A n \in 1..MaxStore :
    (/\ last = Tampered
     /\ store = n
     /\ lastContentHash = calculateHash(Candidate(n))
     /\ cfgFile # File(Candidate(n)))
      ~> (cfgFile = File(Candidate(n)) \/ store # n)

====
